---- MODULE Spec2Model ----
(***************************************************************************)
(* A model of the Petridise simulation engine (src/src/game/MainScene.ts). *)
(*                                                                         *)
(* Units.  TLC has integers only, so the program's floating point values   *)
(* are kept in fixed point:                                                *)
(*   energy             hundredths of an energy point (100 is 10000)       *)
(*   x, y, size, speed  tenths of a pixel                                  *)
(*   Math.random()      thousandths, a value in 0..999                     *)
(*   gravity            tenths (1.0 is 10)                                 *)
(*   cos / sin          thousandths, on the eight compass headings         *)
(*   animationTime      number of 0.05 increments                          *)
(* Products are truncated to the unit by integer division.                 *)
(***************************************************************************)
EXTENDS Integers, Sequences, FiniteSets, Bags, TLC

VARIABLES
    organismData,    \* Map<string, Organism>, in insertion order
    organisms,       \* Map<string, Container>: the ids that have a container
    worldConfig,     \* [name, gravity, biome]
    scale,           \* this.scale: [width, height] of the canvas
    currentTick,
    maxTicks,
    isRunning,
    isAquariumMode,
    tickTimer,       \* TRUE when the looping tick timer event exists
    aquariumTimer,   \* TRUE when the looping aquarium timer event exists
    particles,       \* ParticleConfig[]: the remaining life of each particle
    animationTime,
    nextOrganismId,
    tweens,          \* death tweens in flight: id -> number of tweens
    callbacks,       \* what the SimulationCallbacks observer has received
    lastScan,        \* what the last checkInteractions() found and did (observation only)
    stats,           \* SimulationView: [totalOrganisms, births, deaths]
    initialCountRef, \* SimulationView: organisms.length at mount
    hook             \* the state of useSimulation and the position of its request

vars == <<organismData, organisms, worldConfig, scale, currentTick, maxTicks,
          isRunning, isAquariumMode, tickTimer, aquariumTimer, particles,
          animationTime, nextOrganismId, tweens, callbacks, lastScan, stats,
          initialCountRef, hook>>

----------------------------------------------------------------------------
(* Bounds of the model                                                      *)

MaxTickLimit == 3        \* the tick limits tried are 0..MaxTickLimit
MaxAnimationTime == 4    \* the idle loop stops being explored after this
MaxStops == 2            \* deliveries of onSimulationComplete explored
MaxParticleLife == 3     \* the remaining lives 1..MaxParticleLife of the particles SpecParticles starts with
MaxGeneration == 6       \* continueSimulation is followed up to this generation
MaxListed == 4           \* the organism lists the orchestrator is given have 0..MaxListed entries
MaxParticles == 4        \* SpecParticles starts with 1..MaxParticles particles

----------------------------------------------------------------------------
(* Program constants                                                        *)

FirstOrganismId == 1000      \* nextOrganismId, the n of `org-${n}`
PopulationCap == 50          \* handleReproduction
ParticleCap == 300           \* updateParticles
EnergyMax == 10000           \* Clamp(org.energy, 0, 100)
EnergyDecay == 3             \* org.energy -= 0.03
PlantGain == 8               \* org.energy += 0.08
ReproductionThreshold == 8000   \* org.energy > 80
ReproductionCost == 3000     \* parent.energy -= 30
OffspringEnergy == 5000      \* energy: 50
PredatorGain == 2500         \* a.energy + 25
PreyLoss == 6000             \* b.energy -= 60
GrazerGain == 1500           \* a.energy + 15
PlantLoss == 2500            \* b.energy -= 25
SocialGain == 50             \* a.energy + 0.5
DeathBurst == 12             \* death particle burst
DeathParticleLife == 30
BirthBurst == 8
BirthParticleLife == 20
AttackBurst == 8
AttackParticleLife == 20
EatBurst == 5
EatParticleLife == 25
AmbushRadius == 800          \* getDistance(org, nearbyPrey) < 80
AllyRadius == 1000           \* findNearbyAllies(org, 100)
SolitaryRadius == 1000       \* getDistance(org, nearest) < 100
GrazeRange == 2000           \* (Math.random() - 0.5) * 200

----------------------------------------------------------------------------
(* Math.random(): the draws tried at each call site                         *)

Draws == {0, 999}            \* a low and a high draw
AmbientDraws == {0, 999}
\* the two draws of a random wander, or of a new grazing target
MoveDraws == { <<0, 999>>, <<999, 0>> }
\* the four draws of handleReproduction: x, y, size, speed
BirthDraws == { <<0, 0, 0, 0>>, <<999, 999, 999, 999>>, <<0, 999, 999, 0>> }

----------------------------------------------------------------------------
(* Geometry/Math helpers                                                    *)

Min(a, b) == IF a < b THEN a ELSE b
Max(a, b) == IF a > b THEN a ELSE b

\* Phaser.Math.Clamp(value, min, max) = Math.max(min, Math.min(max, value))
Clamp(value, lo, hi) == Max(lo, Min(hi, value))

\* v * num / den, truncated to the unit
Times(v, num, den) == (v * num) \div den

Sign(v) == IF v > 0 THEN 1 ELSE IF v < 0 THEN -1 ELSE 0

\* getDistance(a, b) < r, compared on squares (no square root in TLA+)
DistSq(a, b) == (a.x - b.x) * (a.x - b.x) + (a.y - b.y) * (a.y - b.y)
Closer(a, b, r) == DistSq(a, b) < r * r

\* The eight compass headings as [c |-> cos, s |-> sin] in thousandths.
Compass ==
    { [c |-> 1000, s |-> 0], [c |-> 707, s |-> 707], [c |-> 0, s |-> 1000],
      [c |-> -707, s |-> 707], [c |-> -1000, s |-> 0], [c |-> -707, s |-> -707],
      [c |-> 0, s |-> -1000], [c |-> 707, s |-> -707] }

\* cos and sin of Math.atan2(dy, dx), snapped to the compass; atan2(0, 0) = 0.
Heading(dx, dy) ==
    IF dx = 0 /\ dy = 0 THEN [c |-> 1000, s |-> 0]
    ELSE IF dx = 0 THEN [c |-> 0, s |-> 1000 * Sign(dy)]
    ELSE IF dy = 0 THEN [c |-> 1000 * Sign(dx), s |-> 0]
    ELSE [c |-> 707 * Sign(dx), s |-> 707 * Sign(dy)]

\* (Math.random() - 0.5) * span
Jitter(r, span) == Times(r - 500, span, 1000)

\* base * (0.9 + Math.random() * 0.2)
Mutate(base, r) == Times(base, 900 + Times(r, 200, 1000), 1000)

----------------------------------------------------------------------------
(* organismData as a Map kept in insertion order                            *)

Ids(data) == { data[i].id : i \in 1..Len(data) }

IndexOf(data, id) == CHOOSE i \in 1..Len(data) : data[i].id = id

\* Map.set: an existing key keeps its place, a new key goes last
MapSet(data, org) ==
    IF org.id \in Ids(data)
    THEN [data EXCEPT ![IndexOf(data, org.id)] = org]
    ELSE Append(data, org)

\* Map.delete
MapDelete(data, id) == SelectSeq(data, LAMBDA o : o.id # id)

\* An Organism record; kind is [type, behavior, locomotion, species, size, speed].
\* direction and animationPhase are not kept: the angles that depend on them
\* are drawn from SineDraws and AngleDraws where the code reads them.
Organism(id, kind, x, y, energy, age, maxAge, reproductionRate) ==
    [id |-> id, type |-> kind.type, behavior |-> kind.behavior,
     locomotion |-> kind.locomotion, species |-> kind.species,
     x |-> x, y |-> y, size |-> kind.size, speed |-> kind.speed,
     energy |-> energy, age |-> age, maxAge |-> maxAge,
     reproductionRate |-> reproductionRate, generation |-> 1,
     hasTarget |-> FALSE, targetX |-> 0, targetY |-> 0]

----------------------------------------------------------------------------
(* Movement Policy Engine                                                   *)

\* The sines of animationTime + animationPhase, and the angles computed from
\* parseInt(org.id, 36) or from org.direction, are sampled.
SineDraws == {-1000, 1000}
AngleDraws == { [c |-> 1000, s |-> 0], [c |-> -707, s |-> 707] }

\* The index of the first organism at minimal distance among `cands`, 0 if none.
Nearest(org, data, cands) ==
    IF cands = {} THEN 0
    ELSE CHOOSE i \in cands :
           \A j \in cands :
             \/ DistSq(org, data[i]) < DistSq(org, data[j])
             \/ DistSq(org, data[i]) = DistSq(org, data[j]) /\ i <= j

findNearestPrey(predator, data) ==
    Nearest(predator, data,
            { i \in 1..Len(data) :
                /\ data[i].id # predator.id
                /\ predator.type = "carnivore"
                /\ data[i].type \in {"herbivore", "omnivore"} })

findNearestOrganism(org, data) ==
    Nearest(org, data, { i \in 1..Len(data) : data[i].id # org.id })

findNearbyAllies(org, data, radius) ==
    { i \in 1..Len(data) :
        /\ data[i].id # org.id
        /\ data[i].species = org.species
        /\ Closer(org, data[i], radius) }

RECURSIVE SumOver(_, _, _)
SumOver(data, idx, field) ==
    IF idx = {} THEN 0
    ELSE LET i == CHOOSE k \in idx : TRUE
         IN  (IF field = "x" THEN data[i].x ELSE data[i].y)
               + SumOver(data, idx \ {i}, field)

\* speed along heading h, times num/den
Along(h, speed, num, den) ==
    [x |-> Times(Times(h.c, speed, 1000), num, den),
     y |-> Times(Times(h.s, speed, 1000), num, den)]

Wander(org) ==
    { [x |-> Jitter(r[1], org.speed), y |-> Jitter(r[2], org.speed)] : r \in MoveDraws }

\* The separation term of the flocking rule: one push per ally closer than 2 x size.
RECURSIVE Separation(_, _, _)
Separation(org, data, idx) ==
    IF idx = {} THEN [x |-> 0, y |-> 0]
    ELSE LET i == CHOOSE k \in idx : TRUE
             rest == Separation(org, data, idx \ {i})
             push == Along(Heading(org.x - data[i].x, org.y - data[i].y),
                           org.speed, 5, 10)
         IN  IF Closer(org, data[i], org.size * 2)
             THEN [x |-> rest.x + push.x, y |-> rest.y + push.y]
             ELSE rest

\* a variant that leaves a target at the organism's own place
NoTargetMarks(org, moves) ==
    { [x |-> m.x, y |-> m.y, hasTarget |-> TRUE,
       targetX |-> org.x, targetY |-> org.y] : m \in moves }

NoTarget(org, moves) ==
    { [x |-> m.x, y |-> m.y, hasTarget |-> org.hasTarget,
       targetX |-> org.targetX, targetY |-> org.targetY] : m \in moves }

\* calculateEnhancedMovement: the possible { x, y } together with the grazing
\* target the call leaves in org.
calculateEnhancedMovement(org, data) ==
    CASE org.behavior = "passive" -> NoTarget(org, Wander(org))
      [] org.behavior = "aggressive" ->
           LET p == findNearestPrey(org, data)
           IN  IF p # 0
               THEN NoTarget(org, { Along(Heading(data[p].x - org.x, data[p].y - org.y),
                                          org.speed, 15, 10) })
               ELSE NoTarget(org, Wander(org))
      [] org.behavior = "ambush" ->
           LET p == findNearestPrey(org, data)
           IN  IF p # 0 /\ Closer(org, data[p], AmbushRadius)
               THEN NoTarget(org, { Along(Heading(data[p].x - org.x, data[p].y - org.y),
                                          org.speed, 25, 10) })
               ELSE NoTarget(org, { [x |-> 0, y |-> 0] })
      [] org.behavior = "territorial" ->
           NoTarget(org, { Along(h, org.speed, 5, 10) : h \in AngleDraws })
      [] org.behavior \in {"social", "schooling"} ->
           LET allies == findNearbyAllies(org, data, AllyRadius)
               n == Cardinality(allies)
           IN  IF n > 0
               THEN LET avgX == SumOver(data, allies, "x") \div n
                        avgY == SumOver(data, allies, "y") \div n
                        coh == Along(Heading(avgX - org.x, avgY - org.y),
                                     org.speed, 3, 10)
                        sep == Separation(org, data, allies)
                    IN  NoTarget(org,
                          { [x |-> coh.x + Along(h, org.speed, 5, 10).x + sep.x,
                             y |-> coh.y + Along(h, org.speed, 5, 10).y + sep.y] :
                              h \in AngleDraws })
               ELSE NoTarget(org, Wander(org))
      [] org.behavior = "grazing" ->
           LET targets ==
                 { [hasTarget |-> org.hasTarget, targetX |-> org.targetX,
                    targetY |-> org.targetY] }
                 \cup { [hasTarget |-> TRUE,
                         targetX |-> org.x + Jitter(r[1], GrazeRange),
                         targetY |-> org.y + Jitter(r[2], GrazeRange)] : r \in MoveDraws }
           IN  { LET m == IF t.hasTarget
                          THEN Along(Heading(t.targetX - org.x, t.targetY - org.y),
                                     org.speed, 5, 10)
                          ELSE [x |-> 0, y |-> 0]
                 IN  [x |-> m.x, y |-> m.y, hasTarget |-> t.hasTarget,
                      targetX |-> t.targetX, targetY |-> t.targetY] : t \in targets }
      [] org.behavior = "solitary" ->
           LET q == findNearestOrganism(org, data)
           IN  IF q # 0 /\ Closer(org, data[q], SolitaryRadius)
               THEN NoTarget(org, { Along(Heading(org.x - data[q].x, org.y - data[q].y),
                                          org.speed, 1, 1) })
               ELSE NoTarget(org, Wander(org))
      [] org.behavior = "migratory" ->
           NoTarget(org, { [x |-> Times(h.c, org.speed, 1000),
                            y |-> Times(Times(h.s, org.speed, 1000), 5, 10)] :
                             h \in AngleDraws })
      [] OTHER -> NoTarget(org, { [x |-> 0, y |-> 0] })

----------------------------------------------------------------------------
(* Locomotion Modifier Table, in tenths                                     *)

getLocomotionModifiers(locomotion) ==
    CASE locomotion = "flying" -> [speedMult |-> 15, gravityMult |-> 1]
      [] locomotion = "gliding" -> [speedMult |-> 12, gravityMult |-> 3]
      [] locomotion = "swimming" -> [speedMult |-> 10, gravityMult |-> 2]
      [] locomotion = "floating" -> [speedMult |-> 5, gravityMult |-> 0]
      [] locomotion = "hopping" -> [speedMult |-> 13, gravityMult |-> 8]
      [] locomotion = "slithering" -> [speedMult |-> 8, gravityMult |-> 10]
      [] locomotion = "burrowing" -> [speedMult |-> 6, gravityMult |-> 12]
      [] locomotion = "crawling" -> [speedMult |-> 7, gravityMult |-> 10]
      [] OTHER -> [speedMult |-> 10, gravityMult |-> 10]

\* The locomotion-specific offsets added to the position in the active loop.
Oscillation(locomotion) ==
    CASE locomotion \in {"flying", "gliding"} ->
           { [x |-> 0, y |-> Times(s, 5, 1000)] : s \in SineDraws }
      [] locomotion = "hopping" ->
           { [x |-> 0, y |-> 0] } \cup { [x |-> 0, y |-> 0 - Times(s, 20, 1000)] : s \in {1000} }
      [] locomotion \in {"swimming", "floating"} ->
           { [x |-> Times(s2, 2, 1000), y |-> Times(s1, 3, 1000)] :
               s1 \in SineDraws, s2 \in SineDraws }
      [] OTHER -> { [x |-> 0, y |-> 0] }

\* The same offsets in the aquarium loop (no hop).
AquariumOscillation(locomotion) ==
    CASE locomotion \in {"flying", "gliding"} ->
           { [x |-> 0, y |-> Times(s, 4, 1000)] : s \in SineDraws }
      [] locomotion \in {"swimming", "floating"} ->
           { [x |-> Times(s2, 15, 10000), y |-> Times(s1, 25, 10000)] :
               s1 \in SineDraws, s2 \in SineDraws }
      [] OTHER -> { [x |-> 0, y |-> 0] }

\* spawnLocomotionParticles: the lives of the particles one call may push.
spawnLocomotionParticles(locomotion) ==
    CASE locomotion \in {"swimming", "floating"} -> { <<>>, <<30>> }
      [] locomotion \in {"flying", "gliding"} -> { <<>>, <<20>> }
      [] locomotion = "hopping" -> { <<>>, <<15, 15, 15>> }
      [] locomotion = "slithering" -> { <<>>, <<40>> }
      [] OTHER -> { <<>> }

----------------------------------------------------------------------------
(* Particle/Effect System                                                   *)

Burst(count, life) == [k \in 1..count |-> life]

\* spawnAmbientParticles: the lives of the particles one call may push.
spawnAmbientParticles(biome) ==
    { IF r1 > 150 THEN <<>>
      ELSE CASE biome \in {"ocean", "swamp"} -> <<80>>
             [] biome \in {"forest", "grassland"} -> IF r2 > 500 THEN <<100>> ELSE <<>>
             [] biome = "desert" -> <<60>>
             [] biome = "tundra" -> <<120>>
             [] biome = "volcanic" -> IF r2 > 700 THEN <<50>> ELSE <<>>
             [] biome = "cave" -> IF r2 > 800 THEN <<70>> ELSE <<>>
             [] biome = "alien" -> <<40>>
             [] OTHER -> <<>> : r1 \in AmbientDraws, r2 \in AmbientDraws }

\* a variant that keeps a particle whose life has reached 0
AgeParticlesKeepsSpent(ps) == SelectSeq([k \in 1..Len(ps) |-> ps[k] - 1], LAMBDA l : l >= 0)

\* p.life--; if (p.life <= 0) return false
AgeParticles(ps) == SelectSeq([k \in 1..Len(ps) |-> ps[k] - 1], LAMBDA l : l > 0)

\* this.particles.slice(-300) when there are more than 300
CapParticles(ps) ==
    IF Len(ps) > ParticleCap THEN SubSeq(ps, Len(ps) - ParticleCap + 1, Len(ps)) ELSE ps

\* updateParticles (particleGraphics exists from create() on)
updateParticles(ps, biome) ==
    { CapParticles(AgeParticles(ps \o amb)) : amb \in spawnAmbientParticles(biome) }

----------------------------------------------------------------------------
(* Interaction Resolver                                                     *)

\* handleInteraction(a, b): the two organisms afterwards, the particles pushed and
\* the branch taken
\* a variant in which a predator takes from its prey what a grazer takes from a
\* plant
handleInteractionGentle(a, b) ==
    IF a.type = "carnivore" /\ b.type \in {"herbivore", "plant"}
    THEN [a |-> [a EXCEPT !.energy = Min(EnergyMax, @ + PredatorGain)],
          b |-> [b EXCEPT !.energy = @ - PlantLoss],
          burst |-> Burst(AttackBurst, AttackParticleLife), rule |-> "predation"]
    ELSE [a |-> a, b |-> b, burst |-> <<>>, rule |-> "none"]

handleInteraction(a, b) ==
    IF a.type = "carnivore" /\ b.type \in {"herbivore", "plant"}
    THEN [a |-> [a EXCEPT !.energy = Min(EnergyMax, @ + PredatorGain)],
          b |-> [b EXCEPT !.energy = @ - PreyLoss],
          burst |-> Burst(AttackBurst, AttackParticleLife), rule |-> "predation"]
    ELSE IF b.type = "carnivore" /\ a.type \in {"herbivore", "plant"}
    THEN [a |-> [a EXCEPT !.energy = @ - PreyLoss],
          b |-> [b EXCEPT !.energy = Min(EnergyMax, @ + PredatorGain)],
          burst |-> Burst(AttackBurst, AttackParticleLife), rule |-> "predation"]
    ELSE IF a.type = "herbivore" /\ b.type = "plant"
    THEN [a |-> [a EXCEPT !.energy = Min(EnergyMax, @ + GrazerGain)],
          b |-> [b EXCEPT !.energy = @ - PlantLoss],
          burst |-> Burst(EatBurst, EatParticleLife), rule |-> "grazing"]
    ELSE IF b.type = "herbivore" /\ a.type = "plant"
    THEN [a |-> [a EXCEPT !.energy = @ - PlantLoss],
          b |-> [b EXCEPT !.energy = Min(EnergyMax, @ + GrazerGain)],
          burst |-> Burst(EatBurst, EatParticleLife), rule |-> "grazing"]
    ELSE IF a.species = b.species /\ a.behavior \in {"social", "schooling"}
    THEN [a |-> [a EXCEPT !.energy = Min(EnergyMax, @ + SocialGain)],
          b |-> [b EXCEPT !.energy = Min(EnergyMax, @ + SocialGain)],
          burst |-> <<>>, rule |-> "social"]
    ELSE [a |-> a, b |-> b, burst |-> <<>>, rule |-> "none"]

\* dist < (a.size + b.size) / 2
InContact(a, b) == 4 * DistSq(a, b) < (a.size + b.size) * (a.size + b.size)

\* The inner loop of checkInteractions: organism i against j, j + 1, ...;
\* st is [data, particles, ...]; st.calls lists the handleInteraction calls made
\* and st.before is the registry as the scan found it.
RECURSIVE InteractRow(_, _, _)
InteractRow(st, i, j) ==
    IF j > Len(st.data) THEN st
    ELSE IF InContact(st.data[i], st.data[j])
    THEN LET r == handleInteraction(st.data[i], st.data[j])
         IN  InteractRow([st EXCEPT !.data[i] = r.a, !.data[j] = r.b,
                                    !.particles = @ \o r.burst,
                                    !.calls = Append(@, [a |-> r.a.id, b |-> r.b.id,
                                                         rule |-> r.rule])], i, j + 1)
    ELSE InteractRow(st, i, j + 1)

\* The outer loop of checkInteractions, from organism i on.
RECURSIVE InteractFrom(_, _)
InteractFrom(st, i) ==
    IF i > Len(st.data) THEN st ELSE InteractFrom(InteractRow(st, i, i + 1), i + 1)

\* a variant that scans the pairs twice
checkInteractionsTwice(st) ==
    InteractFrom(InteractFrom([st EXCEPT !.before = st.data, !.calls = <<>>], 1), 1)

checkInteractions(st) == InteractFrom([st EXCEPT !.before = st.data, !.calls = <<>>], 1)

----------------------------------------------------------------------------
(* Lifecycle Manager                                                        *)
(* st is the part of the scene a tick works on:                            *)
(*   [data, organisms, nextId, particles, tweens]                          *)

\* handleOrganismDeath(id): a burst and a tween whose onComplete removes id
handleOrganismDeath(st, id) ==
    IF id \in st.organisms /\ id \in Ids(st.data)
    THEN [st EXCEPT !.particles = @ \o Burst(DeathBurst, DeathParticleLife),
                    !.tweens = @ (+) SetToBag({id})]
    ELSE st

\* handleReproduction(parent), parent being the organism visited at index i:
\* the possible [st, org], org being the parent object afterwards.
\* a variant without the population check
handleReproductionUncapped(st, i, parent) ==
    LET p == [parent EXCEPT !.energy = @ - ReproductionCost]
        offspring == [p EXCEPT !.id = st.nextId, !.energy = OffspringEnergy, !.age = 0,
                               !.generation = (IF p.generation = 0 THEN 1 ELSE p.generation) + 1]
    IN  { [st |-> [st EXCEPT !.data = MapSet([st.data EXCEPT ![i] = p], offspring),
                             !.organisms = @ \cup {offspring.id},
                             !.nextId = @ + 1,
                             !.particles = @ \o Burst(BirthBurst, BirthParticleLife)],
           org |-> p] }

\* a variant that charges the parent the offspring's starting energy
handleReproductionDear(st, i, parent) ==
    IF Len(st.data) >= PopulationCap THEN { [st |-> st, org |-> parent] }
    ELSE LET p == [parent EXCEPT !.energy = @ - OffspringEnergy]
             offspring == [p EXCEPT !.id = st.nextId, !.energy = OffspringEnergy, !.age = 0,
                                    !.generation = (IF p.generation = 0 THEN 1 ELSE p.generation) + 1]
         IN  { [st |-> [st EXCEPT !.data = MapSet([st.data EXCEPT ![i] = p], offspring),
                                  !.organisms = @ \cup {offspring.id},
                                  !.nextId = @ + 1,
                                  !.particles = @ \o Burst(BirthBurst, BirthParticleLife)],
                org |-> p] }

handleReproduction(st, i, parent) ==
    IF Len(st.data) >= PopulationCap THEN { [st |-> st, org |-> parent] }
    ELSE LET p == [parent EXCEPT !.energy = @ - ReproductionCost]
             s1 == [st EXCEPT !.data[i] = p]
         IN  { LET offspring ==
                     [p EXCEPT !.id = st.nextId,
                               !.x = p.x + Jitter(r[1], p.size * 3),
                               !.y = p.y + Jitter(r[2], p.size * 3),
                               !.energy = OffspringEnergy,
                               !.age = 0,
                               !.size = Mutate(p.size, r[3]),
                               !.speed = Mutate(p.speed, r[4]),
                               !.generation = (IF p.generation = 0 THEN 1 ELSE p.generation) + 1]
               IN  [st |-> [s1 EXCEPT !.data = MapSet(s1.data, offspring),
                                      !.organisms = @ \cup {offspring.id},
                                      !.nextId = @ + 1,
                                      !.particles = @ \o Burst(BirthBurst, BirthParticleLife)],
                    org |-> p] : r \in BirthDraws }

\* The movement block of updateOrganisms for one organism: the possible
\* positions (and grazing target) after integration and clamping.
MoveOrganism(org, data, world, canvas) ==
    LET mod == getLocomotionModifiers(org.locomotion)
        padding == org.size \div 2
        fall == Times((world.gravity - 10) * mod.gravityMult, 1, 100)
    IN  { [org EXCEPT
             !.x = Clamp(org.x + Times(m.x, mod.speedMult, 10) + osc.x,
                         padding, canvas.width - padding),
             !.y = Clamp(org.y + Times(m.y, mod.speedMult, 10) + fall + osc.y,
                         padding, canvas.height - padding),
             !.hasTarget = m.hasTarget, !.targetX = m.targetX, !.targetY = m.targetY] :
          m \in calculateEnhancedMovement(org, data),
          osc \in Oscillation(org.locomotion) }

IsMobile(org) == org.type # "plant" /\ org.locomotion # "sessile"

\* Update energy, update age
UpdateVitals(org) ==
    [org EXCEPT !.energy = Clamp(@ - EnergyDecay + (IF org.type = "plant" THEN PlantGain ELSE 0),
                                 0, EnergyMax),
                !.age = @ + 1]

ShouldDie(org) == org.energy <= 0 \/ org.age >= org.maxAge

\* The forEach callback of updateOrganisms on the entry at index i.
UpdateOne(st, i, world, canvas) ==
    LET org == st.data[i]
    IN  IF org.id \notin st.organisms THEN {st}
        ELSE UNION {
          LET o2 == UpdateVitals(o1)
              s2 == [st EXCEPT !.data[i] = o2, !.particles = @ \o puff]
              born == IF o2.energy > ReproductionThreshold
                      THEN UNION { IF r * 10 < o2.reproductionRate
                                   THEN handleReproduction(s2, i, o2)
                                   ELSE { [st |-> s2, org |-> o2] } : r \in Draws }
                      ELSE { [st |-> s2, org |-> o2] }
          IN  { IF ShouldDie(b.org) THEN handleOrganismDeath(b.st, org.id) ELSE b.st :
                  b \in born } :
          o1 \in (IF IsMobile(org) THEN MoveOrganism(org, st.data, world, canvas) ELSE {org}),
          puff \in (IF IsMobile(org) THEN spawnLocomotionParticles(org.locomotion) ELSE {<<>>}) }

\* organismData.forEach: entries added during the iteration are visited too.
RECURSIVE UpdateFrom(_, _, _, _)
UpdateFrom(st, i, world, canvas) ==
    IF i > Len(st.data) THEN {st}
    ELSE UNION { UpdateFrom(s, i + 1, world, canvas) : s \in UpdateOne(st, i, world, canvas) }

\* updateOrganisms: the per-organism pass, then the particles, then the interactions
updateOrganisms(st, world, canvas) ==
    UNION { { checkInteractions([s EXCEPT !.particles = ps]) :
                ps \in updateParticles(s.particles, world.biome) } :
            s \in UpdateFrom(st, 1, world, canvas) }

----------------------------------------------------------------------------
(* Idle (aquarium) loop                                                     *)

\* The movement block of updateAquariumMode for one organism.
AquariumMove(org, data, world, canvas) ==
    LET mod == getLocomotionModifiers(org.locomotion)
        padding == org.size \div 2
        fall == Times((world.gravity - 10) * mod.gravityMult, 3, 1000)
    IN  { [org EXCEPT
             !.x = Clamp(org.x + Times(Times(m.x, mod.speedMult, 10), 4, 10) + osc.x,
                         padding, canvas.width - padding),
             !.y = Clamp(org.y + Times(Times(m.y, mod.speedMult, 10), 4, 10) + fall + osc.y,
                         padding, canvas.height - padding),
             !.hasTarget = m.hasTarget, !.targetX = m.targetX, !.targetY = m.targetY] :
          m \in calculateEnhancedMovement(org, data),
          osc \in AquariumOscillation(org.locomotion) }

\* The forEach callback of updateAquariumMode on the entry at index i.
AquariumOne(st, i, world, canvas) ==
    LET org == st.data[i]
    IN  IF org.id \notin st.organisms \/ ~IsMobile(org) THEN {st}
        ELSE { [st EXCEPT !.data[i] = o1, !.particles = @ \o puff] :
                 o1 \in AquariumMove(org, st.data, world, canvas),
                 puff \in spawnLocomotionParticles(org.locomotion) }

RECURSIVE AquariumFrom(_, _, _, _)
AquariumFrom(st, i, world, canvas) ==
    IF i > Len(st.data) THEN {st}
    ELSE UNION { AquariumFrom(s, i + 1, world, canvas) : s \in AquariumOne(st, i, world, canvas) }

----------------------------------------------------------------------------
(* Initial populations                                                      *)

Plant == [type |-> "plant", behavior |-> "passive", locomotion |-> "sessile", species |-> "fern", size |-> 200, speed |-> 0]
Stalker == [type |-> "carnivore", behavior |-> "ambush", locomotion |-> "walking", species |-> "lynx", size |-> 200, speed |-> 20]
Hunter == [type |-> "carnivore", behavior |-> "aggressive", locomotion |-> "walking", species |-> "wolf", size |-> 200, speed |-> 20]
Grazer == [type |-> "herbivore", behavior |-> "passive", locomotion |-> "walking", species |-> "deer", size |-> 200, speed |-> 20]
Patroller == [type |-> "omnivore", behavior |-> "territorial", locomotion |-> "crawling", species |-> "crab", size |-> 100, speed |-> 30]

Herder == [type |-> "omnivore", behavior |-> "schooling", locomotion |-> "walking", species |-> "boar", size |-> 200, speed |-> 20]
Polyp == [type |-> "omnivore", behavior |-> "social", locomotion |-> "sessile", species |-> "coral", size |-> 200, speed |-> 0]
Sponge == [type |-> "omnivore", behavior |-> "passive", locomotion |-> "sessile", species |-> "coral", size |-> 200, speed |-> 0]

Browser == [type |-> "herbivore", behavior |-> "grazing", locomotion |-> "walking", species |-> "goat", size |-> 200, speed |-> 20]
Drifter == [type |-> "herbivore", behavior |-> "dormant", locomotion |-> "walking", species |-> "snail", size |-> 200, speed |-> 20]

Canvas == [width |-> 2000, height |-> 1000]

\* a carnivore 5 px from a plant, both at full energy
Predation ==
    [world |-> [name |-> "Predation", gravity |-> 10, biome |-> "forest"], canvas |-> Canvas,
     list |-> << Organism(1, Stalker, 1000, 500, 10000, 0, 1000, 500),
                 Organism(2, Plant, 1050, 500, 10000, 0, 1000, 0) >>]

\* a herbivore one tick before its maximum age
OldAge ==
    [world |-> [name |-> "OldAge", gravity |-> 10, biome |-> "forest"], canvas |-> Canvas,
     list |-> << Organism(1, Grazer, 500, 500, 5000, 9, 10, 0) >>]

\* a carnivore in contact with a herbivore at half energy
Hunt ==
    [world |-> [name |-> "Hunt", gravity |-> 10, biome |-> "desert"], canvas |-> Canvas,
     list |-> << Organism(1, Hunter, 1000, 500, 5000, 0, 1000, 0),
                 Organism(2, Grazer, 1100, 500, 5000, 0, 1000, 0) >>]

\* a fertile plant on the left edge, under double gravity, and a patrolling crab
EdgePlant ==
    [world |-> [name |-> "EdgePlant", gravity |-> 20, biome |-> "forest"], canvas |-> Canvas,
     list |-> << Organism(1, Plant, 0, 500, 10000, 0, 1000, 500),
                 Organism(2, Patroller, 1500, 940, 5000, 0, 1000, 0) >>]

\* one below the population cap, with two fertile plants
Crowded ==
    [world |-> [name |-> "Crowded", gravity |-> 10, biome |-> "forest"], canvas |-> Canvas,
     list |-> [k \in 1..(PopulationCap - 1) |->
                 IF k <= 2 THEN Organism(k, Plant, 300 * k, 500, 10000, 0, 1000, 500)
                 ELSE Organism(k, Plant, 30 * k, 800, 5000, 0, 1000, 0)]]

\* more organisms than the population cap, two of them fertile
Overfull ==
    [world |-> [name |-> "Overfull", gravity |-> 10, biome |-> "forest"], canvas |-> Canvas,
     list |-> [k \in 1..(PopulationCap + 1) |->
                 IF k <= 2 THEN Organism(k, Plant, 300 * k, 500, 10000, 0, 1000, 500)
                 ELSE Organism(k, Plant, 30 * k, 800, 5000, 0, 1000, 0)]]

\* a starving herbivore in the middle of thirty plants it touches
Meadow ==
    [world |-> [name |-> "Meadow", gravity |-> 10, biome |-> "forest"], canvas |-> Canvas,
     list |-> [k \in 1..31 |->
                 IF k = 1 THEN Organism(1, Grazer, 1000, 500, 2, 0, 1000, 0)
                 ELSE Organism(k, Plant, 920 + 5 * k, 500, 10000, 0, 1000, 0)]]

\* three sessile animals of one species in contact, the first of them not social
Reef ==
    [world |-> [name |-> "Reef", gravity |-> 10, biome |-> "ocean"], canvas |-> Canvas,
     list |-> << Organism(1, Sponge, 1000, 500, 5000, 0, 1000, 0),
                 Organism(2, Polyp, 1050, 500, 5000, 0, 1000, 0),
                 Organism(3, Polyp, 1100, 500, 9980, 0, 1000, 0) >>]

\* two schooling animals of one species 150 px apart
School ==
    [world |-> [name |-> "School", gravity |-> 10, biome |-> "grassland"], canvas |-> Canvas,
     list |-> << Organism(1, Herder, 250, 500, 5000, 0, 1000, 0),
                 Organism(2, Herder, 1750, 500, 5000, 0, 1000, 0) >>]

\* an organism that already carries the id the first offspring will get
Carried ==
    [world |-> [name |-> "Carried", gravity |-> 10, biome |-> "forest"], canvas |-> Canvas,
     list |-> << Organism(1, Plant, 500, 500, 10000, 0, 1000, 500),
                 Organism(FirstOrganismId, Plant, 1500, 500, 5000, 0, 1000, 0) >>]

\* a grazing animal, an animal whose behaviour tag has no rule, and a plant
Pasture ==
    [world |-> [name |-> "Pasture", gravity |-> 10, biome |-> "desert"], canvas |-> Canvas,
     list |-> << Organism(1, Browser, 500, 500, 5000, 0, 1000, 0),
                 Organism(2, Drifter, 1500, 500, 5000, 0, 1000, 0),
                 Organism(3, Plant, 1000, 800, 5000, 0, 1000, 0) >>]

\* a world without organisms
Barren ==
    [world |-> [name |-> "Barren", gravity |-> 10, biome |-> "desert"], canvas |-> Canvas,
     list |-> <<>>]

Scenarios == {Predation, OldAge, Hunt, EdgePlant, Crowded, Overfull, Meadow, Reef, School, Carried, Barren, Pasture}

\* init(): organismData.set(org.id, {...org}) for each organism of the list
\* (a key keeps the place of its first occurrence and the value of its last)
FromList(list) ==
    LET firsts == SelectSeq([k \in 1..Len(list) |-> k],
                            LAMBDA k : \A j \in 1..(k - 1) : list[j].id # list[k].id)
        last(k) == CHOOSE j \in k..Len(list) :
                     /\ list[j].id = list[k].id
                     /\ \A m \in (j + 1)..Len(list) : list[m].id # list[k].id
    IN  [n \in 1..Len(firsts) |-> list[last(firsts[n])]]

\* createOrganisms(): every organism is clamped into the canvas
createOrganisms(data, canvas) ==
    [k \in 1..Len(data) |->
       [data[k] EXCEPT !.x = Clamp(@, data[k].size \div 2, canvas.width - data[k].size \div 2),
                       !.y = Clamp(@, data[k].size \div 2, canvas.height - data[k].size \div 2)]]

----------------------------------------------------------------------------
(* SimulationView and useSimulation                                         *)

\* SimulationView.updateStats(updatedOrganisms): births is carried over from
\* prev (species statistics are not kept)
updateStats(prev, updatedOrganisms, initialCount) ==
    [prev EXCEPT !.totalOrganisms = Len(updatedOrganisms),
                 !.deaths = initialCount - Len(updatedOrganisms) + prev.births]

\* useSimulation(): the state the hook starts with.  organisms is the length
\* of the list, world and evolveResult tell whether the value is non-null,
\* error is the message or "null", and request is the fetch in flight.
\* events, stats, texture, narrative and the debug history are not kept.
HookStart ==
    [status |-> "configuring", isGenerating |-> FALSE, isEvolving |-> FALSE,
     generation |-> 1, world |-> FALSE, organisms |-> 0, error |-> "null",
     evolveResult |-> FALSE, request |-> "none"]

----------------------------------------------------------------------------
(* Tick Scheduler                                                           *)

Completions == Cardinality({ k \in 1..Len(callbacks.log) : callbacks.log[k][1] = "onSimulationComplete" })

\* init(), create() and startSimulation()
Init ==
    \E scn \in Scenarios, limit \in 0..MaxTickLimit :
      /\ organismData = createOrganisms(FromList(scn.list), scn.canvas)
      /\ organisms = Ids(FromList(scn.list))
      /\ worldConfig = scn.world
      /\ scale = scn.canvas
      /\ currentTick = 0
      /\ maxTicks = limit
      /\ isRunning = TRUE
      /\ isAquariumMode = FALSE
      /\ tickTimer = TRUE
      /\ aquariumTimer = FALSE
      /\ particles = <<>>
      /\ animationTime = 0
      /\ nextOrganismId = FirstOrganismId
      /\ tweens = EmptyBag
      /\ callbacks = [log |-> <<>>, organisms |-> <<>>]
      /\ lastScan = [before |-> <<>>, calls |-> <<>>]
      /\ stats = [totalOrganisms |-> Len(scn.list), births |-> 0, deaths |-> 0]
      /\ initialCountRef = Len(scn.list)
      /\ hook = [HookStart EXCEPT !.status = "running", !.world = TRUE,
                                   !.organisms = Len(scn.list)]

Scene == [data |-> organismData, organisms |-> organisms, nextId |-> nextOrganismId, particles |-> particles, tweens |-> tweens, before |-> <<>>, calls |-> <<>>]

startAquariumMode ==
    IF aquariumTimer
    THEN UNCHANGED <<isAquariumMode, aquariumTimer>>
    ELSE isAquariumMode' = TRUE /\ aquariumTimer' = TRUE

\* stopSimulation(), cb being what the observer has received so far and tick
\* the value of currentTick
\* a variant that leaves the tick timer in place
stopSimulationKeepsTimer(cb, tick) ==
    /\ isRunning' = FALSE
    /\ tickTimer' = tickTimer
    /\ startAquariumMode
    /\ callbacks' = [cb EXCEPT !.log = Append(@, <<"onSimulationComplete", tick>>)]

stopSimulation(cb, tick) ==
    /\ isRunning' = FALSE
    /\ tickTimer' = FALSE
    /\ startAquariumMode
    /\ callbacks' = [cb EXCEPT !.log = Append(@, <<"onSimulationComplete", tick>>)]

\* callbacks.onTick(currentTick); callbacks.onOrganismUpdate(Array.from(...))
\* a variant that reports the tick without the organism update
NotifyTickOnly(cb, tick, data) ==
    [log |-> Append(cb.log, <<"onTick", tick>>), organisms |-> cb.organisms]

Notify(cb, tick, data) ==
    [log |-> cb.log \o << <<"onTick", tick>>, <<"onOrganismUpdate", Len(data)>> >>,
     organisms |-> data]

\* the tick timer fires
onTick ==
    /\ tickTimer
    /\ IF ~isRunning THEN UNCHANGED vars
       ELSE \E st \in updateOrganisms(Scene, worldConfig, scale) :
              /\ currentTick' = currentTick + 1
              /\ animationTime' = animationTime + 1
              /\ organismData' = st.data
              /\ organisms' = st.organisms
              /\ nextOrganismId' = st.nextId
              /\ particles' = st.particles
              /\ tweens' = st.tweens
              /\ lastScan' = [before |-> st.before, calls |-> st.calls]
              /\ stats' = updateStats(stats, st.data, initialCountRef)
              /\ LET cb == Notify(callbacks, currentTick + 1, st.data)
                 IN  IF currentTick + 1 >= maxTicks
                     THEN stopSimulation(cb, currentTick + 1)
                     ELSE /\ callbacks' = cb
                          /\ UNCHANGED <<isRunning, tickTimer, isAquariumMode, aquariumTimer>>
              /\ UNCHANGED <<worldConfig, scale, maxTicks, initialCountRef, hook>>


\* the aquarium timer fires
updateAquariumMode ==
    /\ aquariumTimer
    /\ animationTime < MaxAnimationTime
    /\ \E st \in AquariumFrom(Scene, 1, worldConfig, scale) :
         \E ps \in updateParticles(st.particles, worldConfig.biome) :
           /\ animationTime' = animationTime + 1
           /\ organismData' = st.data
           /\ particles' = ps
    /\ UNCHANGED <<organisms, worldConfig, scale, currentTick, maxTicks, isRunning,
                   isAquariumMode, tickTimer, aquariumTimer, nextOrganismId, tweens,
                   callbacks, lastScan, stats, initialCountRef, hook>>

\* a death tween completes: container.destroy(), organisms.delete(id),
\* organismData.delete(id)
TweenComplete ==
    \E id \in BagToSet(tweens) :
      /\ tweens' = tweens (-) SetToBag({id})
      /\ organisms' = organisms \ {id}
      /\ organismData' = MapDelete(organismData, id)
      /\ UNCHANGED <<worldConfig, scale, currentTick, maxTicks, isRunning, isAquariumMode,
                     tickTimer, aquariumTimer, particles, animationTime, nextOrganismId,
                     callbacks, lastScan, stats, initialCountRef, hook>>

Control == <<isRunning, isAquariumMode, tickTimer, aquariumTimer, callbacks>>
Rest == <<organismData, organisms, worldConfig, scale, currentTick, maxTicks, particles,
          animationTime, nextOrganismId, tweens, lastScan, stats, initialCountRef, hook>>

\* a variant of pauseSimulation that also destroys the tick timer
pauseSimulationDropsTimer ==
    /\ isRunning' = FALSE
    /\ tickTimer' = FALSE
    /\ UNCHANGED <<isAquariumMode, aquariumTimer, callbacks>>
    /\ UNCHANGED Rest

pauseSimulation ==
    /\ isRunning' = FALSE
    /\ UNCHANGED <<isAquariumMode, tickTimer, aquariumTimer, callbacks>>
    /\ UNCHANGED Rest

\* a variant that starts the tick timer again
resumeSimulationRestarts ==
    /\ isRunning' = TRUE
    /\ tickTimer' = TRUE
    /\ UNCHANGED <<isAquariumMode, aquariumTimer, callbacks>>
    /\ UNCHANGED Rest

resumeSimulation ==
    /\ isRunning' = TRUE
    /\ UNCHANGED <<isAquariumMode, tickTimer, aquariumTimer, callbacks>>
    /\ UNCHANGED Rest

\* PetridiseGame.stop(): the public stopSimulation()
stop ==
    /\ Completions < MaxStops
    /\ stopSimulation(callbacks, currentTick)
    /\ UNCHANGED Rest

\* the public startAquariumMode()
enterAquariumMode ==
    /\ startAquariumMode
    /\ UNCHANGED <<isRunning, tickTimer, callbacks>>
    /\ UNCHANGED Rest

stopAquariumMode ==
    /\ isAquariumMode' = FALSE
    /\ aquariumTimer' = FALSE
    /\ UNCHANGED <<isRunning, tickTimer, callbacks>>
    /\ UNCHANGED Rest

\* The timers, the tweens and the commands of PetridiseGame
Next ==
    \/ onTick
    \/ updateAquariumMode
    \/ TweenComplete
    \/ pauseSimulation
    \/ resumeSimulation
    \/ stop

Spec == Init /\ [][Next]_vars

\* The timers and the tweens alone: no command is issued
NextTimers ==
    \/ onTick
    \/ updateAquariumMode
    \/ TweenComplete

SpecTimers == Init /\ [][NextTimers]_vars

\* the worlds whose every tick has few outcomes
InitLive == Init /\ worldConfig.name \in {"OldAge", "Hunt", "Predation", "Reef", "Barren"}

\* the worlds followed under every public method
InitScene == Init /\ worldConfig.name \in {"Hunt", "Reef", "Barren"}

\* Every public method of the scene
NextScene ==
    \/ Next
    \/ enterAquariumMode
    \/ stopAquariumMode

SpecScene == InitScene /\ [][NextScene]_vars

\* The timers, the tweens, pause and resume: the tick timer is never destroyed
\* from outside.  The timer event loops (loop: true), so a tick that is
\* possible again and again is eventually taken; a pause is ended by a resume.
NextLive ==
    \/ onTick
    \/ updateAquariumMode
    \/ TweenComplete
    \/ pauseSimulation
    \/ resumeSimulation

\* a firing of the tick timer that runs a tick: among the steps of the model
\* these are the steps that advance currentTick
TickRuns == tickTimer /\ isRunning /\ currentTick' = currentTick + 1

SpecLive == InitLive /\ [][NextLive]_vars /\ SF_currentTick(TickRuns) /\ WF_vars(resumeSimulation)

\* useSimulation on its own: the scene is not started, the runs it would make
\* are stood for by the lists given to completeRun.
SceneVars == <<organismData, organisms, worldConfig, scale, currentTick, maxTicks, isRunning, isAquariumMode, tickTimer, aquariumTimer, particles, animationTime, nextOrganismId, tweens, callbacks, lastScan, stats, initialCountRef>>

Listed == 0..MaxListed

\* generateWorld(config), up to its first await
generateWorld ==
    /\ hook.status = "configuring" /\ hook.request = "none"
    /\ hook' = [hook EXCEPT !.status = "generating", !.isGenerating = TRUE,
                             !.error = "null", !.request = "generate"]
    /\ UNCHANGED SceneVars

\* generateWorld(config), from the response on: the world arrives with n
\* organisms, or the request fails
generateWorldSettles ==
    /\ hook.request = "generate"
    /\ \E ok \in BOOLEAN, n \in Listed :
         hook' = IF ok
                 THEN [hook EXCEPT !.world = TRUE, !.organisms = n, !.generation = 1,
                                   !.evolveResult = FALSE, !.status = "running",
                                   !.isGenerating = FALSE, !.request = "none"]
                 ELSE [hook EXCEPT !.error = "Failed to generate world",
                                   !.status = "configuring", !.isGenerating = FALSE,
                                   !.request = "none"]
    /\ UNCHANGED SceneVars

\* completeRun(finalOrganisms, finalStats), the onComplete of SimulationView
completeRun ==
    /\ hook.status = "running" /\ hook.world /\ hook.request = "none"
    /\ \E n \in Listed : hook' = [hook EXCEPT !.organisms = n, !.status = "completed"]
    /\ UNCHANGED SceneVars

\* evolve(), up to its await
evolveBegins(h) ==
    IF ~h.world THEN h
    ELSE [h EXCEPT !.status = "evolving", !.isEvolving = TRUE, !.error = "null",
                   !.request = "evolve"]

\* evolve(), from the response on: n organisms for the next run, or the catch
evolveSettles(h, ok, n) ==
    IF ok
    THEN [h EXCEPT !.evolveResult = TRUE, !.organisms = n, !.generation = @ + 1,
                   !.isEvolving = FALSE, !.request = "none"]
    ELSE [h EXCEPT !.error = "Failed to evolve", !.isEvolving = FALSE, !.request = "none"]

\* continueSimulation(), after await evolve()
continueSimulationEnds(h) == [h EXCEPT !.status = "running", !.evolveResult = FALSE]

\* continueSimulation(), the onContinue of the results panel, up to the await
continueSimulation ==
    /\ hook.status = "completed" /\ hook.world /\ hook.request = "none"
    /\ hook.generation < MaxGeneration
    /\ hook' = IF ~hook.evolveResult
               THEN LET h == evolveBegins(hook)
                    IN  IF h.request = "evolve" THEN h ELSE continueSimulationEnds(h)
               ELSE continueSimulationEnds(hook)
    /\ UNCHANGED SceneVars

\* the evolve request settles and continueSimulation runs to its end
continueSimulationSettles ==
    /\ hook.request = "evolve"
    /\ \E ok \in BOOLEAN, n \in Listed :
         hook' = continueSimulationEnds(evolveSettles(hook, ok, n))
    /\ UNCHANGED SceneVars

\* reset(), the onReset of the results panel
reset ==
    /\ hook.status = "completed" /\ hook.request = "none"
    /\ hook' = HookStart
    /\ UNCHANGED SceneVars

\* the hook is mounted and no scene exists: the fields of MainScene have their
\* initial values
InitHook ==
    /\ organismData = <<>>
    /\ organisms = {}
    /\ worldConfig = [name |-> "null", gravity |-> 10, biome |-> "forest"]
    /\ scale = Canvas
    /\ currentTick = 0
    /\ maxTicks = 1000
    /\ isRunning = FALSE
    /\ isAquariumMode = FALSE
    /\ tickTimer = FALSE
    /\ aquariumTimer = FALSE
    /\ particles = <<>>
    /\ animationTime = 0
    /\ nextOrganismId = FirstOrganismId
    /\ tweens = EmptyBag
    /\ callbacks = [log |-> <<>>, organisms |-> <<>>]
    /\ lastScan = [before |-> <<>>, calls |-> <<>>]
    /\ stats = [totalOrganisms |-> 0, births |-> 0, deaths |-> 0]
    /\ initialCountRef = 0
    /\ hook = HookStart

NextHook ==
    \/ generateWorld
    \/ generateWorldSettles
    \/ completeRun
    \/ continueSimulation
    \/ continueSimulationSettles
    \/ reset

SpecHook == InitHook /\ [][NextHook]_vars

\* The particle pool on its own: the idle loop of a world without organisms,
\* taken up when the particles left in the pool are near the end of their
\* lives; animationTime counts the updates from there on.
OldParticles == UNION { [1..n -> 1..MaxParticleLife] : n \in 1..MaxParticles }

InitParticles ==
    /\ organismData = <<>>
    /\ organisms = {}
    /\ worldConfig = Barren.world
    /\ scale = Barren.canvas
    /\ currentTick = 1
    /\ maxTicks = 1
    /\ isRunning = FALSE
    /\ isAquariumMode = TRUE
    /\ tickTimer = FALSE
    /\ aquariumTimer = TRUE
    /\ particles \in OldParticles
    /\ animationTime = 0
    /\ nextOrganismId = FirstOrganismId
    /\ tweens = EmptyBag
    /\ callbacks = [log |-> << <<"onTick", 1>>, <<"onOrganismUpdate", 0>>, <<"onSimulationComplete", 1>> >>, organisms |-> <<>>]
    /\ lastScan = [before |-> <<>>, calls |-> <<>>]
    /\ stats = [totalOrganisms |-> 0, births |-> 0, deaths |-> 0]
    /\ initialCountRef = 0
    /\ hook = [HookStart EXCEPT !.status = "running", !.world = TRUE]

NextParticles == updateAquariumMode

SpecParticles == InitParticles /\ [][NextParticles]_vars

----------------------------------------------------------------------------
(* Properties                                                               *)

Registry == { organismData[i] : i \in 1..Len(organismData) }
Snapshot == { callbacks.organisms[i] : i \in 1..Len(callbacks.organisms) }
Log == callbacks.log
TickCalls == { k \in 1..Len(Log) : Log[k][1] = "onTick" }
UpdateCalls == { k \in 1..Len(Log) : Log[k][1] = "onOrganismUpdate" }
CompleteCalls == { k \in 1..Len(Log) : Log[k][1] = "onSimulationComplete" }
ById(id) == organismData[IndexOf(organismData, id)]

VitalsInRange(org) == 0 <= org.energy /\ org.energy <= EnergyMax /\ org.age >= 0

\* C1: in every state getOrganisms() can observe, and in every snapshot given
\* to onOrganismUpdate, every organism has 0 <= energy <= 100 and age >= 0.
C1_ClampInvariant == \A org \in Registry \cup Snapshot : VitalsInRange(org)

\* C2: once a tick has run, no organism with energy <= 0 or age >= maxAge is in
\* the registry or in the snapshot given to onOrganismUpdate: death is applied
\* in the tick that finds it.
C2_DeathSameTick == currentTick >= 1 => \A org \in Registry \cup Snapshot : ~ShouldDie(org)

\* C3: with a tick limit N >= 1 and no command, onTick has been called
\* currentTick <= N times; onSimulationComplete has been delivered once if
\* currentTick = N and not at all before; and from then on the tick timer is
\* torn down and the aquarium loop is active.
C3_LimitThenIdle ==
    maxTicks >= 1 =>
      /\ currentTick <= maxTicks
      /\ Cardinality(TickCalls) = currentTick
      /\ IF currentTick = maxTicks
         THEN /\ Cardinality(CompleteCalls) = 1
              /\ Log[Len(Log)][1] = "onSimulationComplete"
              /\ ~tickTimer /\ ~isRunning /\ aquariumTimer /\ isAquariumMode
         ELSE /\ CompleteCalls = {}
              /\ tickTimer /\ isRunning /\ ~aquariumTimer /\ ~isAquariumMode

\* the limit was reached and the idle loop has run since
C3_Witness ==
    /\ maxTicks = MaxTickLimit /\ currentTick = maxTicks
    /\ Cardinality(CompleteCalls) = 1
    /\ animationTime > currentTick

\* C4: under any interleaving of ticks with pause, resume and stop,
\* onSimulationComplete is delivered at most once, and only when the tick count
\* has reached the configured maximum.
C4_CompleteOnceAtLimit ==
    /\ Cardinality(CompleteCalls) <= 1
    /\ \A k \in CompleteCalls : Log[k][2] >= maxTicks

InBounds(org) ==
    /\ org.size \div 2 <= org.x /\ org.x <= scale.width - org.size \div 2
    /\ org.size \div 2 <= org.y /\ org.y <= scale.height - org.size \div 2

\* C5: in every state, every organism of the registry lies within
\* [size/2, W - size/2] x [size/2, H - size/2].
C5_AllInBounds == \A org \in Registry \cup Snapshot : InBounds(org)

\* C6: a step that adds organisms to the registry leaves at most 50 in it.
C6_CapAfterBirth ==
    [][Len(organismData') > Len(organismData) => Len(organismData') <= PopulationCap]_vars

\* a birth has filled the registry to the cap
C6_Witness == Len(organismData) = PopulationCap /\ nextOrganismId > FirstOrganismId

AttackParticles == { k \in 1..Len(particles) : particles[k] = AttackParticleLife }

LogPairs ==
    /\ Cardinality(TickCalls) = currentTick
    /\ Cardinality(UpdateCalls) = currentTick
    /\ \A k \in 1..Len(Log) :
         /\ k <= 2 * currentTick =>
              IF k % 2 = 1 THEN Log[k] = <<"onTick", (k + 1) \div 2>>
              ELSE Log[k][1] = "onOrganismUpdate"
         /\ k > 2 * currentTick => Log[k][1] = "onSimulationComplete"

TickNotifies ==
    currentTick' # currentTick =>
      /\ currentTick' = currentTick + 1
      /\ callbacks'.organisms = organismData'
      /\ Log'[2 * currentTick'] = <<"onOrganismUpdate", Len(organismData')>>

C10_NoWayBack ==
    [][CompleteCalls # {} =>
         /\ currentTick' = currentTick
         /\ callbacks'.organisms = callbacks.organisms
         /\ { k \in 1..Len(Log') : Log'[k][1] # "onSimulationComplete" }
              = { k \in 1..Len(Log) : Log[k][1] # "onSimulationComplete" }]_vars

\* resumed after the scheduler had finished
C10_Witness == CompleteCalls # {} /\ isRunning /\ animationTime > currentTick

\* What the lifecycle decides of each registered organism
Vitals(data) == { [id |-> data[i].id, energy |-> data[i].energy, age |-> data[i].age] : i \in 1..Len(data) }

\* C11: once the tick timer is torn down (idle mode), no step changes an
\* organism's age or energy, adds an organism to the registry or removes one.
C11_IdleLifecycleFree == [][~tickTimer => Vitals(organismData') = Vitals(organismData)]_vars

\* The branch of handleInteraction for a registered before b
FirstMatch(a, b) ==
    IF \/ a.type = "carnivore" /\ b.type \in {"herbivore", "plant"}
       \/ b.type = "carnivore" /\ a.type \in {"herbivore", "plant"}
    THEN "predation"
    ELSE IF {a.type, b.type} = {"herbivore", "plant"} THEN "grazing"
    ELSE IF a.species = b.species /\ a.behavior \in {"social", "schooling"} THEN "social"
    ELSE "none"

\* The energy one application of a rule leaves an organism of energy e
Effect(rule, org, e) ==
    CASE rule = "predation" ->
           IF org.type = "carnivore" THEN Min(EnergyMax, e + PredatorGain) ELSE e - PreyLoss
      [] rule = "grazing" ->
           IF org.type = "herbivore" THEN Min(EnergyMax, e + GrazerGain) ELSE e - PlantLoss
      [] rule = "social" -> Min(EnergyMax, e + SocialGain)
      [] OTHER -> e

\* What a scan that found the registry `before` and made `calls` must have done
\* to give the registry `after`
Resolved(before, calls, after) ==
    LET n == Len(before)
        contacts == { p \in (1..n) \X (1..n) :
                        p[1] < p[2] /\ InContact(before[p[1]], before[p[2]]) }
        expected == { [a |-> before[p[1]].id, b |-> before[p[2]].id,
                       rule |-> FirstMatch(before[p[1]], before[p[2]])] : p \in contacts }
        of(i) == { k \in 1..Len(calls) : before[i].id \in {calls[k].a, calls[k].b} }
    IN  /\ Len(after) = n
        /\ { calls[k] : k \in 1..Len(calls) } = expected
        /\ Len(calls) = Cardinality(contacts)
        /\ Cardinality(expected) = Cardinality(contacts)
        /\ \A i \in 1..n :
             /\ after[i].id = before[i].id
             /\ of(i) = {} => after[i].energy = before[i].energy
             /\ \A k \in of(i) :
                  of(i) = {k} => after[i].energy = Effect(calls[k].rule, before[i], before[i].energy)

\* C12: in each active tick handleInteraction is called once for every unordered
\* pair of registered organisms in contact and for no other pair; each call
\* applies the first matching rule of predation, grazing, social bonus, or none;
\* an organism in no contact keeps its energy and an organism in one contact
\* gets exactly that rule's effect.
C12_PairsResolvedOnce ==
    [][currentTick' # currentTick => Resolved(lastScan'.before, lastScan'.calls, organismData')]_vars

\* a tick on the reef: three pairs in contact, one of them with a social bonus
\* that hits the cap
C12_Witness ==
    /\ worldConfig.name = "Reef" /\ currentTick = 1
    /\ Len(lastScan.calls) = 3
    /\ \E k \in 1..3 : lastScan.calls[k] = [a |-> 2, b |-> 3, rule |-> "social"]
    /\ \E k \in 1..3 : lastScan.calls[k] = [a |-> 1, b |-> 2, rule |-> "none"]
    /\ ById(3).energy = EnergyMax

\* C13: at the end of every active or idle tick the particle pool holds at most
\* 300 particles.
C13_PoolWithinCap == Len(particles) <= ParticleCap

\* The distance the School pair starts at: 150 px
SchoolStart == School.list[2].x - School.list[1].x

\* C14: two schooling organisms of one species started 150 px apart with no
\* other organism do not diverge: after any number of active ticks they are no
\* farther apart than at the start.
C14_FlockDoesNotDiverge ==
    (worldConfig.name = "School" /\ animationTime = currentTick /\ Len(organismData) = 2)
      => DistSq(organismData[1], organismData[2]) <= SchoolStart * SchoolStart

\* C15: within one active tick the interactions are resolved before the
\* lifecycle effects: the organisms the scan works on have not yet been aged by
\* the tick, so each is one tick younger than the tick leaves it.
C15_ResolverBeforeLifecycle ==
    [][currentTick' # currentTick =>
         \A i \in 1..Len(lastScan'.before) :
           organismData'[i].age = lastScan'.before[i].age + 1]_vars

\* The organisms of the registry that pass the energy test of updateOrganisms
\* and can draw a reproduction
Fertile == { i \in 1..Len(organismData) :
               /\ organismData[i].energy > ReproductionThreshold
               /\ organismData[i].reproductionRate > 0 }

\* What handleReproduction(parent) may do to scene st, parent being entry i
Reproduces(st, i, parent) ==
    \A res \in handleReproduction(st, i, parent) :
      IF Len(st.data) >= PopulationCap
      THEN res.st = st /\ res.org = parent
      ELSE LET o == res.st.data[IndexOf(res.st.data, st.nextId)]
           IN  /\ res.org = [parent EXCEPT !.energy = parent.energy - ReproductionCost]
               /\ st.nextId \in Ids(res.st.data)
               /\ o.energy = OffspringEnergy /\ o.age = 0
               /\ o.generation = parent.generation + 1
               /\ o.type = parent.type /\ o.species = parent.species
               /\ res.st.nextId = st.nextId + 1
               /\ Len(res.st.data) <= Len(st.data) + 1
               /\ \A k \in 1..Len(st.data) :
                    st.data[k].id \notin {parent.id, st.nextId}
                      => res.st.data[k] = st.data[k]

\* C16: handleReproduction below the population cap registers one offspring
\* under the next id with energy 50, age 0 and the parent's generation plus one,
\* takes exactly 30 from the parent's energy and changes no other field of the
\* parent; at the cap it changes neither the registry nor the parent.
C16_ReproductionEvent ==
    \A i \in Fertile : Reproduces(Scene, i, organismData[i])

\* a birth has filled the registry: the parent paid 30, its offspring is of the
\* second generation, and the other fertile plant, at the cap, paid nothing
C16_Witness ==
    /\ worldConfig.name = "Crowded" /\ currentTick = 1
    /\ Len(organismData) = PopulationCap
    /\ ById(1).energy = EnergyMax - ReproductionCost
    /\ ById(2).energy = EnergyMax
    /\ FirstOrganismId \in Ids(organismData)
    /\ ById(FirstOrganismId).generation = 2
    /\ Fertile # {}

\* C17: for every pair in contact that a tick resolved, handleInteraction gives
\* the same rule and the same energies whichever of the two comes first.
C17_PairOrderIrrelevant ==
    \A i, j \in 1..Len(lastScan.before) :
      LET a == lastScan.before[i]
          b == lastScan.before[j]
      IN  (i < j /\ InContact(a, b)) =>
            /\ handleInteraction(a, b).rule = handleInteraction(b, a).rule
            /\ handleInteraction(a, b).a.energy = handleInteraction(b, a).b.energy
            /\ handleInteraction(a, b).b.energy = handleInteraction(b, a).a.energy

\* C18: death is triggered once per organism: no organism ever has more than
\* one removal (death tween) scheduled.
C18_DeathTriggeredOnce == \A id \in BagToSet(tweens) : CopiesIn(id, tweens) = 1

\* C19: an organism leaves the registry only with energy <= 0 or age >= maxAge
\* at the moment it is removed.
C19_RemovedOnlyWhenDead ==
    [][\A i \in 1..Len(organismData) :
         organismData[i].id \notin Ids(organismData') => ShouldDie(organismData[i])]_vars

\* C20: a step that allots offspring ids adds as many organisms to the registry
\* and leaves every organism registered before it in place.
C20_BirthAddsOne ==
    [][nextOrganismId' > nextOrganismId =>
         /\ Len(organismData') = Len(organismData) + (nextOrganismId' - nextOrganismId)
         /\ \A i \in 1..Len(organismData) :
              /\ organismData'[i].id = organismData[i].id
              /\ organismData'[i].generation = organismData[i].generation
              /\ organismData'[i].maxAge = organismData[i].maxAge]_vars

\* between pauseSimulation() and resumeSimulation(): the run is halted and the
\* tick timer still exists
Paused == ~isRunning /\ tickTimer

\* what a pause is meant to freeze: the registry with every organism's id,
\* energy, age and position
Frozen(data) == [i \in 1..Len(data) |-> [id |-> data[i].id, energy |-> data[i].energy, age |-> data[i].age, x |-> data[i].x, y |-> data[i].y]]

\* C21: while the simulation is paused nothing in the authoritative state
\* changes: a step that begins and ends paused leaves the tick counter, the
\* registry (ids, energy, age, position) and the callback log as they were.
C21_PauseFreezes == [][Paused /\ Paused' => currentTick' = currentTick /\ Frozen(organismData') = Frozen(organismData) /\ callbacks' = callbacks]_vars

\* C22: when the timer keeps firing and the simulation is not left paused for
\* ever, the tick count eventually reaches the configured limit and
\* onSimulationComplete is delivered, whatever happens to the organisms.
C22_EventuallyComplete == <>(currentTick >= maxTicks /\ CompleteCalls # {})

\* the limit is reached and completion delivered after the registry has emptied
\* through a death
C22_Witness == worldConfig.name = "OldAge" /\ maxTicks = MaxTickLimit /\ currentTick = maxTicks /\ Len(organismData) = 0 /\ CompleteCalls # {} /\ ~isRunning /\ ~tickTimer

\* the behaviour tags calculateEnhancedMovement has a case for
RuledBehaviors == {"passive", "aggressive", "ambush", "territorial", "social", "schooling", "grazing", "solitary", "migratory"}

\* what one call of calculateEnhancedMovement(org) may leave in org
WritesOnlyOwnTarget(org, data) ==
    \A m \in calculateEnhancedMovement(org, data) :
      /\ org.behavior # "grazing" =>
           m.hasTarget = org.hasTarget /\ m.targetX = org.targetX /\ m.targetY = org.targetY
      /\ org.behavior \notin RuledBehaviors => m.x = 0 /\ m.y = 0

\* an idle step: displacements are computed and integrated, nothing else
\* touches the registry
IdleStep == animationTime' # animationTime /\ currentTick' = currentTick

\* the organism as the idle loop may leave it: a new place and, for a grazing
\* organism, a new target
MovedOnly(before, after) ==
    /\ after = [before EXCEPT !.x = after.x, !.y = after.y, !.hasTarget = after.hasTarget, !.targetX = after.targetX, !.targetY = after.targetY]
    /\ before.behavior # "grazing" =>
         after.hasTarget = before.hasTarget /\ after.targetX = before.targetX /\ after.targetY = before.targetY
    /\ ~IsMobile(before) => after = before

\* C23: computing a displacement writes no organism other than the one moved,
\* and in that one only the grazing target, and only under the grazing tag; a
\* tag without a rule gives zero displacement and writes nothing.
C23_DisplacementReadOnly ==
    /\ [](\A i \in 1..Len(organismData) : WritesOnlyOwnTarget(organismData[i], organismData))
    /\ [][IdleStep => /\ Len(organismData') = Len(organismData)
                      /\ \A i \in 1..Len(organismData) : MovedOnly(organismData[i], organismData'[i])]_vars

\* a tick has given the grazing animal a target and left the others without one
C23_Witness == worldConfig.name = "Pasture" /\ currentTick = 1 /\ Len(organismData) = 3 /\ organismData[1].hasTarget /\ ~organismData[2].hasTarget /\ organismData[2].x = Pasture.list[2].x /\ ~organismData[3].hasTarget

\* the life an ambient particle of the desert is spawned with
DesertParticleLife == 60

\* the particles that were in the pool before the ambient ones were spawned:
\* an ambient one has lost at most MaxAnimationTime of its life
Old(ps) == SelectSeq(ps, LAMBDA l : l < DesertParticleLife - MaxAnimationTime)

\* every life one less, the particles that reach 0 gone, the order kept
OneLess(ps) ==
    LET kept == SelectSeq(ps, LAMBDA l : l > 1)
    IN  [k \in 1..Len(kept) |-> kept[k] - 1]

\* C24: each particle update takes exactly 1 from every particle's life, a
\* particle goes in the update that brings its life to 0, and so a particle
\* with life L is gone after at most L updates.
C24_ParticlesDoNotLeak ==
    /\ [](\A k \in 1..Len(particles) : particles[k] >= 1)
    /\ [](\A k \in 1..Len(Old(particles)) : Old(particles)[k] <= MaxParticleLife - animationTime)
    /\ [][animationTime' # animationTime => Old(particles') = OneLess(Old(particles))]_vars

\* after MaxParticleLife updates the particles the pool began with are all gone
C24_Witness == animationTime = MaxParticleLife /\ Old(particles) = <<>> /\ Len(particles) >= 1

\* C25: in every reachable state 0 <= currentTick <= maxTicks, for every tick
\* limit maxTicks >= 0: no more than maxTicks ticks are ever executed.
C25_TickWithinLimit == 0 <= currentTick /\ currentTick <= maxTicks

\* C26: under any sequence of the public operations and timer firings the
\* authoritative tick loop and the idle loop are never both live.
C26_LoopsExclusive == ~(tickTimer /\ isRunning /\ aquariumTimer)

\* the organisms whose death was triggered in an earlier tick and whose removal
\* is still pending
Dying == BagToSet(tweens)

\* C27: an organism whose death has been triggered takes no further part: in no
\* later tick does an interaction rule give it or take from it energy, and a
\* tick in which every organism is dying brings no birth.
C27_DyingTakeNoPart ==
    [][currentTick' # currentTick =>
         /\ \A k \in 1..Len(lastScan'.calls) :
              {lastScan'.calls[k].a, lastScan'.calls[k].b} \cap Dying # {} => lastScan'.calls[k].rule = "none"
         /\ Ids(organismData) \subseteq Dying => nextOrganismId' = nextOrganismId]_vars

\* C28: an offspring born during a tick is not itself updated in that tick: in
\* the snapshot given to onOrganismUpdate for the tick it has age 0 and energy
\* 50.
C28_NewbornUntouched ==
    [][currentTick' # currentTick =>
         \A i \in 1..Len(callbacks'.organisms) :
           LET org == callbacks'.organisms[i]
           IN  nextOrganismId <= org.id /\ org.id < nextOrganismId' =>
                 org.age = 0 /\ org.energy = OffspringEnergy]_vars

\* a step in which the evolve request of continueSimulation fails
EvolveFails == hook.request = "evolve" /\ hook'.request = "none" /\ hook'.error # "null"

\* C29: if the evolve request fails, continueSimulation starts no new run: the
\* error is recorded, status does not become 'running', and generation and
\* organisms stay as they were.
C29_FailedEvolveStartsNoRun ==
    [][EvolveFails => /\ hook'.status # "running"
                      /\ hook'.generation = hook.generation
                      /\ hook'.organisms = hook.organisms]_vars

\* the organisms removed from the registry since the run started: those it
\* began with and those born since (one per id handed out) that are no longer
\* in it
Removed == initialCountRef + (nextOrganismId - FirstOrganismId) - Len(organismData)

\* C30: after every onOrganismUpdate snapshot the deaths statistic of
\* SimulationView is not negative and equals the number of organisms removed
\* from the registry since the run started.
C30_DeathsCountRemovals ==
    [][currentTick' # currentTick => stats'.deaths >= 0 /\ stats'.deaths = Removed']_vars

====
